---- MODULE Spec2Model ----
(***************************************************************************)
(* eslint-plugin-simple-key-sort: the rule "sort" of src/index.js.         *)
(*                                                                         *)
(* Strings are sequences of UTF-16 code units.  A property name is a       *)
(* record [null, s]: getPropertyName's null, or the string s.              *)
(***************************************************************************)
EXTENDS Integers, Sequences, FiniteSets, TLC

\* Longest object literal analysed (number of properties).
MaxProps == 3
\* Longest string handed to the order predicates in SpecCmp.
MaxLen == 3
\* Autofix passes the host runs after the first analysis.
MaxPasses == 1

VARIABLES
    pc,        \* "init" | "ready" | "reported" | "fixed" | "cmp" | "cmpdone"
    cfg,       \* the options destructured by create(context)
    props,     \* node.properties of the ObjectExpression
    reports,   \* what context.report received, in order, with each fix evaluated
    pass,      \* autofix passes applied so far
    sa, sb,    \* the operands of an order predicate or comparator (SpecCmp)
    out        \* its result (SpecCmp)

vars == <<pc, cfg, props, reports, pass, sa, sb, out>>

-----------------------------------------------------------------------------
\* Strings

\* "0".."9" are 48..57, "A".."Z" are 65..90, "a".."z" are 97..122.
IsDigit(c) == c >= 48 /\ c <= 57
IsUpper(c) == c >= 65 /\ c <= 90
LowerChar(c) == IF IsUpper(c) THEN c + 32 ELSE c

toLowerCase(s) == [i \in 1..Len(s) |-> LowerChar(s[i])]

\* Lexicographic three-way comparison of two integer sequences, a strict
\* prefix first.
RECURSIVE SeqCmp(_, _)
SeqCmp(a, b) ==
    IF a = <<>> /\ b = <<>> THEN 0
    ELSE IF a = <<>> THEN -1
    ELSE IF b = <<>> THEN 1
    ELSE IF Head(a) < Head(b) THEN -1
    ELSE IF Head(a) > Head(b) THEN 1
    ELSE SeqCmp(Tail(a), Tail(b))

\* JavaScript's relational comparison of two strings: by code unit.
StrLE(a, b) == SeqCmp(a, b) <= 0
StrLT(a, b) == SeqCmp(a, b) < 0
StrGT(a, b) == SeqCmp(a, b) > 0

\* String(n) for a non-negative integer n: its decimal digits.
RECURSIVE NumToString(_)
NumToString(n) ==
    IF n < 10 THEN <<48 + n>>
    ELSE NumToString(n \div 10) \o <<48 + (n % 10)>>

-----------------------------------------------------------------------------
\* String.prototype.localeCompare(b, undefined, {numeric: true, caseFirst: "upper"})
\* on ASCII letters and digits (root collation).

\* Length of the run of digits s starts with.
RECURSIVE DigitRun(_)
DigitRun(s) ==
    IF s = <<>> \/ ~IsDigit(Head(s)) THEN 0 ELSE 1 + DigitRun(Tail(s))

\* Value of a run of digits (leading zeros do not count).
RECURSIVE DigitsValue(_)
DigitsValue(d) ==
    IF d = <<>> THEN 0
    ELSE 10 * DigitsValue(SubSeq(d, 1, Len(d) - 1)) + (d[Len(d)] - 48)

\* Primary collation elements: a run of digits is one element of class 1
\* weighing its value, a letter is an element of class 2 weighing its
\* lowercase code unit (numbers sort before letters).
RECURSIVE PrimaryKey(_)
PrimaryKey(s) ==
    IF s = <<>> THEN <<>>
    ELSE IF IsDigit(Head(s))
         THEN LET n == DigitRun(s)
              IN  <<[cls |-> 1, w |-> DigitsValue(SubSeq(s, 1, n))]>>
                  \o PrimaryKey(SubSeq(s, n + 1, Len(s)))
         ELSE <<[cls |-> 2, w |-> LowerChar(Head(s))]>> \o PrimaryKey(Tail(s))

\* Case weights of the letters, uppercase first (caseFirst: "upper").
RECURSIVE CaseKey(_)
CaseKey(s) ==
    IF s = <<>> THEN <<>>
    ELSE IF IsDigit(Head(s)) THEN CaseKey(Tail(s))
    ELSE <<[cls |-> 2, w |-> IF IsUpper(Head(s)) THEN 0 ELSE 1]>> \o CaseKey(Tail(s))

\* Three-way comparison of two sequences of collation elements, first
\* difference deciding, a strict prefix first.
RECURSIVE KeyCmp(_, _)
KeyCmp(a, b) ==
    IF a = <<>> /\ b = <<>> THEN 0
    ELSE IF a = <<>> THEN -1
    ELSE IF b = <<>> THEN 1
    ELSE IF Head(a).cls # Head(b).cls THEN (IF Head(a).cls < Head(b).cls THEN -1 ELSE 1)
    ELSE IF Head(a).w # Head(b).w THEN (IF Head(a).w < Head(b).w THEN -1 ELSE 1)
    ELSE KeyCmp(Tail(a), Tail(b))

naturalCompare(a, b) ==
    LET p == KeyCmp(PrimaryKey(a), PrimaryKey(b))
    IN  IF p # 0 THEN p ELSE KeyCmp(CaseKey(a), CaseKey(b))

-----------------------------------------------------------------------------
\* Order predicates and comparator

OrderKeys == {"asc", "ascI", "ascN", "ascIN", "desc", "descI", "descN", "descIN"}

RECURSIVE isValidOrders(_, _, _)
isValidOrders(key, a, b) ==
    CASE key = "asc"    -> StrLE(a, b)
      [] key = "ascI"   -> StrLE(toLowerCase(a), toLowerCase(b))
      [] key = "ascN"   -> naturalCompare(a, b) <= 0
      [] key = "ascIN"  -> naturalCompare(toLowerCase(a), toLowerCase(b)) <= 0
      [] key = "desc"   -> isValidOrders("asc", b, a)
      [] key = "descI"  -> isValidOrders("ascI", b, a)
      [] key = "descN"  -> isValidOrders("ascN", b, a)
      [] key = "descIN" -> isValidOrders("ascIN", b, a)

\* makeComparator without its direction: descending sorts as ascending.
makeComparatorAscendingOnly(order, caseSensitive, natural, a, b) ==
    LET na == IF caseSensitive THEN a ELSE toLowerCase(a)
        nb == IF caseSensitive THEN b ELSE toLowerCase(b)
    IN  IF natural THEN naturalCompare(na, nb)
        ELSE (IF StrLT(na, nb) THEN -1 ELSE IF StrGT(na, nb) THEN 1 ELSE 0)

\* The function makeComparator(order, caseSensitive, natural) returns,
\* applied to a and b.
makeComparator(order, caseSensitive, natural, a, b) ==
    LET na == IF caseSensitive THEN a ELSE toLowerCase(a)
        nb == IF caseSensitive THEN b ELSE toLowerCase(b)
        direction == IF order = "desc" THEN -1 ELSE 1
    IN  IF natural THEN direction * naturalCompare(na, nb)
        ELSE direction * (IF StrLT(na, nb) THEN -1 ELSE IF StrGT(na, nb) THEN 1 ELSE 0)

-----------------------------------------------------------------------------
\* AST nodes, source text and tokens

Undefined == "undefined"

\* Keys: an Identifier with its name, or a Literal with its value (a string
\* or a number).
Ident(s)  == [type |-> "Identifier", vt |-> "name",   s |-> s,    n |-> 0]
StrLit(s) == [type |-> "Literal",    vt |-> "string", s |-> s,    n |-> 0]
NumLit(n) == [type |-> "Literal",    vt |-> "number", s |-> <<>>, n |-> n]
NoKey     == [type |-> "none",       vt |-> "none",   s |-> <<>>, n |-> 0]

\* What an entry's source text says: `...x`, `key: v` or `[key]: v`.
SpreadSrc       == [type |-> "SpreadElement", computed |-> FALSE, key |-> NoKey]
PropSrc(c, key) == [type |-> "Property",      computed |-> c,     key |-> key]

EntryKinds ==
    { SpreadSrc,
      PropSrc(TRUE,  Ident(<<97>>)),      \* [a]: v    a dynamic computed key
      PropSrc(TRUE,  StrLit(<<98>>)),     \* ["b"]: v
      PropSrc(TRUE,  NumLit(2)),          \* [2]: v
      PropSrc(FALSE, Ident(<<97>>)),      \* a: v
      PropSrc(FALSE, Ident(<<66>>)) }     \* B: v

\* How two consecutive entries are laid out: the next entry on the next
\* line, or after one blank line.
GapKinds == {"next", "blank"}

RECURSIVE LineOf(_, _)
LineOf(gaps, i) ==
    IF i = 1 THEN 1 ELSE LineOf(gaps, i - 1) + (IF gaps[i - 1] = "next" THEN 1 ELSE 2)

\* The node the parser builds for the text `text` as the pos-th entry, on
\* line `line`.  uid tells apart the texts of one object literal (values,
\* comments, commas).
Parse(text, pos, line) ==
    [pos |-> pos, line |-> line,
     uid |-> text.uid, type |-> text.type, computed |-> text.computed, key |-> text.key]

\* node.range: the entries' spans are disjoint and in the order of the entries.
Range(node) == <<10 * node.pos, 10 * node.pos + 8>>

\* node.loc: an entry lies on one line.
Loc(node) == [start |-> [line |-> node.line], end |-> [line |-> node.line]]

\* sourceCode.getText(node)
getText(node) ==
    [uid |-> node.uid, type |-> node.type, computed |-> node.computed, key |-> node.key]

Properties(kinds, gaps) ==
    [i \in 1..Len(kinds) |->
        Parse([uid |-> i, type |-> kinds[i].type, computed |-> kinds[i].computed,
               key |-> kinds[i].key], i, LineOf(gaps, i))]

\* sourceCode.getTokensBetween(nodeA, nodeB, {includeComments: true}) for an
\* entry and the one that follows it: the comma, on the line of nodeA.
getTokensBetween(nodeA, nodeB) ==
    <<[type |-> "Punctuator", loc |-> Loc(nodeA)]>>

-----------------------------------------------------------------------------
\* Helpers of the rule

NullName == [null |-> TRUE, s |-> <<>>]
Name(s)  == [null |-> FALSE, s |-> s]

\* String(key.value)
String(key) == IF key.vt = "number" THEN NumToString(key.n) ELSE key.s

getPropertyName(node) ==
    IF node.computed
    THEN IF node.key.type = "Literal" /\ node.key.vt # "symbol"
         THEN Name(String(node.key))
         ELSE NullName
    ELSE IF node.key.type = "Identifier" THEN Name(node.key.s)
    ELSE IF node.key.type = "Literal" THEN Name(String(node.key))
    ELSE NullName

\* names[i-1], names[i] of the code are names[i-1], names[i] here, i from 2.
areSorted(names, orderKey) ==
    \A i \in 2..Len(names) :
        ~(~names[i - 1].null /\ ~names[i].null
          /\ ~isValidOrders(orderKey, names[i - 1].s, names[i].s))

hasBlankLineBetween(nodeA, nodeB) ==
    LET tokens == getTokensBetween(nodeA, nodeB)
        n == Len(tokens)
        pairs ==
            <<[end |-> Loc(nodeA).end.line,
               start |-> IF n > 0 THEN tokens[1].loc.start.line ELSE Loc(nodeB).start.line]>>
            \o [i \in 1..(n - 1) |->
                    [end |-> tokens[i].loc.end.line, start |-> tokens[i + 1].loc.start.line]]
            \o (IF n > 0
                THEN <<[end |-> tokens[n].loc.end.line, start |-> Loc(nodeB).start.line]>>
                ELSE <<>>)
    IN  \E k \in 1..Len(pairs) : pairs[k].start - pairs[k].end > 1

\* The loop of splitIntoGroups from properties[i] on, with the groups
\* pushed and the current group so far.
RECURSIVE SplitLoop(_, _, _, _)
SplitLoop(properties, i, groups, current) ==
    IF i > Len(properties)
    THEN IF Len(current) > 0 THEN Append(groups, current) ELSE groups
    ELSE LET prop == properties[i]
             isSpread == prop.type = "SpreadElement" \/ prop.type = "RestElement"
             isIgnoredComputed == cfg.ignoreComputedKeys /\ prop.computed
         IN  IF isSpread \/ isIgnoredComputed
             THEN SplitLoop(properties, i + 1,
                            IF Len(current) > 0 THEN Append(groups, current) ELSE groups,
                            <<>>)
             ELSE LET cut == cfg.allowLineSeparatedGroups /\ Len(current) > 0
                             /\ hasBlankLineBetween(current[Len(current)], prop)
                  IN  SplitLoop(properties, i + 1,
                                IF cut THEN Append(groups, current) ELSE groups,
                                Append(IF cut THEN <<>> ELSE current, prop))

splitIntoGroups(properties) == SplitLoop(properties, 1, <<>>, <<>>)

-----------------------------------------------------------------------------
\* The visitor "ObjectExpression:exit"

OrderKeyOf(c) ==
    c.order \o (IF ~c.caseSensitive THEN "I" ELSE "") \o (IF c.natural THEN "N" ELSE "")

Names(group) == [i \in 1..Len(group) |-> getPropertyName(group[i])]

\* SortCompare with the null names first instead of last.
SortCompareNullFirst(a, b) ==
    LET na == getPropertyName(a)
        nb == getPropertyName(b)
    IN  IF na.null /\ nb.null THEN 0
        ELSE IF na.null THEN -1
        ELSE IF nb.null THEN 1
        ELSE makeComparator(cfg.order, cfg.caseSensitive, cfg.natural, na.s, nb.s)

\* The comparator handed to Array.prototype.sort: null names sink to the end.
SortCompare(a, b) ==
    LET na == getPropertyName(a)
        nb == getPropertyName(b)
    IN  IF na.null /\ nb.null THEN 0
        ELSE IF na.null THEN 1
        ELSE IF nb.null THEN -1
        ELSE makeComparator(cfg.order, cfg.caseSensitive, cfg.natural, na.s, nb.s)

\* Array.prototype.sort is stable: x goes after every element of the sorted
\* prefix that does not compare greater than it.
RECURSIVE InsertStable(_, _)
InsertStable(sortedPrefix, x) ==
    IF sortedPrefix = <<>> THEN <<x>>
    ELSE LET last == sortedPrefix[Len(sortedPrefix)]
         IN  IF SortCompare(last, x) > 0
             THEN Append(InsertStable(SubSeq(sortedPrefix, 1, Len(sortedPrefix) - 1), x), last)
             ELSE Append(sortedPrefix, x)

RECURSIVE SortLoop(_, _, _)
SortLoop(group, i, acc) ==
    IF i > Len(group) THEN acc ELSE SortLoop(group, i + 1, InsertStable(acc, group[i]))

\* [...group].sort(...)
sorted(group) == SortLoop(group, 1, <<>>)

\* replaceText over a span that runs on to the start of the next entry.
replaceTextToNextEntry(original, text) ==
    [range |-> <<Range(original)[1], Range(original)[1] + 10>>, text |-> text]

\* fixer.replaceText(original, text)
replaceText(original, text) == [range |-> Range(original), text |-> text]

\* fix taking each replacement's text from the entry after the target.
RECURSIVE FixLoopShifted(_, _, _)
FixLoopShifted(group, target, i) ==
    IF i > Len(group) THEN <<>>
    ELSE (IF group[i] = target[i] THEN <<>>
          ELSE <<replaceText(group[i], getText(target[(i % Len(group)) + 1]))>>)
         \o FixLoopShifted(group, target, i + 1)

fixShifted(group, target) == FixLoopShifted(group, target, 1)

\* What fix(fixer) returns: the replacements of the entries that move.
RECURSIVE FixLoop(_, _, _)
FixLoop(group, target, i) ==
    IF i > Len(group) THEN <<>>
    ELSE (IF group[i] = target[i] THEN <<>>
          ELSE <<replaceText(group[i], getText(target[i]))>>)
         \o FixLoop(group, target, i + 1)

fix(group, target) == FixLoop(group, target, 1)

\* firstViolationIdx left at its initial value.
firstViolationIdxInitial(names, orderKey) == 2

\* The first i whose pair (names[i-1], names[i]) is out of order; the second
\* entry when there is none.
firstViolationIdx(names, orderKey) ==
    LET bad == {i \in 2..Len(names) :
                    ~names[i - 1].null /\ ~names[i].null
                    /\ ~isValidOrders(orderKey, names[i - 1].s, names[i].s)}
    IN  IF bad = {} THEN 2 ELSE CHOOSE i \in bad : \A j \in bad : i <= j

\* GroupReport without the threshold on the group's length.
GroupReportAnyLength(group) ==
    LET names == [i \in 1..Len(group) |-> getPropertyName(group[i])]
        orderKey == cfg.order \o (IF ~cfg.caseSensitive THEN "I" ELSE "")
                              \o (IF cfg.natural THEN "N" ELSE "")
        bad == {i \in 2..Len(names) :
                    ~names[i - 1].null /\ ~names[i].null
                    /\ ~isValidOrders(orderKey, names[i - 1].s, names[i].s)}
    IN  IF areSorted(names, orderKey) THEN <<>>
        ELSE LET reportNode == group[CHOOSE i \in bad : \A j \in bad : i <= j]
             IN  <<[node |-> reportNode, messageId |-> "sort",
                    fix |-> fix(group, sorted(group))]>>

\* The body of the loop over the groups: the reports one group adds.
GroupReport(group) ==
    IF Len(group) < cfg.minKeys THEN <<>>
    ELSE LET names == Names(group)
             orderKey == OrderKeyOf(cfg)
         IN  IF areSorted(names, orderKey) THEN <<>>
             ELSE LET reportNode == group[firstViolationIdx(names, orderKey)]
                  IN  <<[node |-> reportNode, messageId |-> "sort",
                         fix |-> fix(group, sorted(group))]>>

RECURSIVE ReportLoop(_, _)
ReportLoop(groups, i) ==
    IF i > Len(groups) THEN <<>> ELSE GroupReport(groups[i]) \o ReportLoop(groups, i + 1)

ObjectExpressionExit(node) ==
    IF Len(node) < cfg.minKeys THEN <<>> ELSE ReportLoop(splitIntoGroups(node), 1)

-----------------------------------------------------------------------------
\* The host applying the fixes of every report at once to the original text

\* The text at an entry's place after the fixes: the replacement whose range
\* is the entry's, the entry's own text when there is none.
FixedText(node, fixes) ==
    IF \E k \in 1..Len(fixes) : fixes[k].range = Range(node)
    THEN fixes[CHOOSE k \in 1..Len(fixes) : fixes[k].range = Range(node)].text
    ELSE getText(node)

RECURSIVE AllFixes(_, _)
AllFixes(rs, i) == IF i > Len(rs) THEN <<>> ELSE rs[i].fix \o AllFixes(rs, i + 1)

\* The properties parsed from the fixed text.
Fixed(properties, rs) ==
    [i \in 1..Len(properties) |->
        Parse(FixedText(properties[i], AllFixes(rs, 1)), i, properties[i].line)]

-----------------------------------------------------------------------------
\* The rule as a state machine

DefaultCfg ==
    [order |-> "asc", allowLineSeparatedGroups |-> FALSE, caseSensitive |-> TRUE,
     ignoreComputedKeys |-> FALSE, minKeys |-> 2, natural |-> FALSE]

OptionObjects ==
    [allowLineSeparatedGroups : BOOLEAN, caseSensitive : BOOLEAN,
     ignoreComputedKeys : BOOLEAN, minKeys : {2, 3}, natural : BOOLEAN]

Layouts ==
    UNION {[1..n -> EntryKinds] \X [1..(IF n = 0 THEN 0 ELSE n - 1) -> GapKinds] :
           n \in 0..MaxProps}

NoOperand == <<>>
NoResult == [op |-> "none", b |-> FALSE, n |-> 0]

Init ==
    /\ pc = "init"
    /\ cfg = DefaultCfg
    /\ props = <<>>
    /\ reports = <<>>
    /\ pass = 0
    /\ sa = NoOperand /\ sb = NoOperand /\ out = NoResult

\* create(context): the options, each with its default.
Create ==
    /\ pc = "init"
    /\ \E o0 \in {Undefined, "asc", "desc"} :
        \/ cfg' = [DefaultCfg EXCEPT !.order = IF o0 = Undefined THEN "asc" ELSE o0]
        \/ \E o1 \in OptionObjects :
              cfg' = [order |-> IF o0 = Undefined THEN "asc" ELSE o0,
                      allowLineSeparatedGroups |-> o1.allowLineSeparatedGroups,
                      caseSensitive |-> o1.caseSensitive,
                      ignoreComputedKeys |-> o1.ignoreComputedKeys,
                      minKeys |-> o1.minKeys,
                      natural |-> o1.natural]
    /\ pc' = "ready"
    /\ UNCHANGED <<props, reports, pass, sa, sb, out>>

\* "ObjectExpression:exit"(node): the traversal leaves an object literal of
\* the file, or of the text the fixes produced.
ObjectExit ==
    /\ \/ /\ pc = "ready"
          /\ \E l \in Layouts : props' = Properties(l[1], l[2])
          /\ reports' = ObjectExpressionExit(props')
       \/ /\ pc = "fixed"
          /\ props' = props
          /\ reports' = ObjectExpressionExit(props)
    /\ pc' = "reported"
    /\ UNCHANGED <<cfg, pass, sa, sb, out>>

\* The host applies every report's fix to the text, which is linted again.
ApplyFixes ==
    /\ pc = "reported"
    /\ reports # <<>>
    /\ pass < MaxPasses
    /\ props' = Fixed(props, reports)
    /\ reports' = <<>>
    /\ pass' = pass + 1
    /\ pc' = "fixed"
    /\ UNCHANGED <<cfg, sa, sb, out>>

Next == Create \/ ObjectExit \/ ApplyFixes

Spec == Init /\ [][Next]_vars

-----------------------------------------------------------------------------
\* The order predicates and naturalCompare on their own

\* "0", "1", "2", "A", "a", "b"
Alphabet == {48, 49, 50, 65, 97, 98}

Strings == UNION {[1..n -> Alphabet] : n \in 0..MaxLen}

InitCmp ==
    /\ pc = "cmp"
    /\ sa \in Strings
    /\ sb \in Strings
    /\ out = NoResult
    /\ cfg = DefaultCfg
    /\ props = <<>> /\ reports = <<>> /\ pass = 0

\* isValidOrders[key](sa, sb)
EvalOrder ==
    /\ pc = "cmp"
    /\ \E key \in OrderKeys :
          out' = [op |-> key, b |-> isValidOrders(key, sa, sb), n |-> 0]
    /\ pc' = "cmpdone"
    /\ UNCHANGED <<cfg, props, reports, pass, sa, sb>>

\* naturalCompare(sa, sb)
EvalNatural ==
    /\ pc = "cmp"
    /\ out' = [op |-> "naturalCompare", b |-> FALSE, n |-> naturalCompare(sa, sb)]
    /\ pc' = "cmpdone"
    /\ UNCHANGED <<cfg, props, reports, pass, sa, sb>>

NextCmp == EvalOrder \/ EvalNatural

SpecCmp == InitCmp /\ [][NextCmp]_vars

-----------------------------------------------------------------------------
\* Vocabulary of the properties below

Reported == pc = "reported"
OrderKey == OrderKeyOf(cfg)
Groups == splitIntoGroups(props)
\* p is an entry of the group g.
In(p, g) == \E i \in 1..Len(g) : g[i] = p

\* The adjacent pairs of g, by the index of their later entry, whose names
\* are both defined and which the order predicate rejects.
Violations(g) ==
    LET key == OrderKey
        names == Names(g)
    IN  {i \in 2..Len(g) :
            /\ ~names[i - 1].null
            /\ ~names[i].null
            /\ ~isValidOrders(key, names[i - 1].s, names[i].s)}

\* The reports anchored at an entry of g.
ReportsIn(g) == {k \in 1..Len(reports) : In(reports[k].node, g)}

\* The group a report is about.
GroupOf(r) ==
    LET gs == Groups IN gs[CHOOSE x \in 1..Len(gs) : In(r.node, gs[x])]

\* Every unsortable entry of g comes after every named one.
UnsortableLast(g) ==
    \A i \in 2..Len(g) : getPropertyName(g[i - 1]).null => getPropertyName(g[i]).null

IsLiteralComputed(p) == p.type = "Property" /\ p.computed /\ p.key.type = "Literal"
IsDynamicComputed(p) == p.type = "Property" /\ p.computed /\ p.key.type # "Literal"
IsSeparator(p) == p.type = "SpreadElement" \/ p.type = "RestElement"

\* Two spans [s, e) share a position.
Intersect(r1, r2) == r1[1] < r2[2] /\ r2[1] < r1[2]

-----------------------------------------------------------------------------
\* Properties of the rule (checked under Spec)

\* C1: idempotence of the autofix.  Once the fixes of every report have been
\* applied at once to the original entries, analysing the result under the
\* same configuration reports nothing: every group is found sorted.
C1_FixIsIdempotent ==
    (Reported /\ pass >= 1) => reports = <<>>

\* A fixed object literal whose entries did move, re-analysed under the
\* descending, case-insensitive, natural order.
C1_Witness ==
    /\ Reported /\ pass >= 1
    /\ \E i \in 1..Len(props) : props[i].uid # i
    /\ cfg.order = "desc" /\ ~cfg.caseSensitive /\ cfg.natural

\* C3: the minKeys threshold.  A structure with fewer than minKeys entries
\* yields no report; no report is anchored in a group with fewer than minKeys
\* entries; a structure of exactly minKeys entries that forms one group with
\* an out-of-order pair yields exactly one report.
C3_MinKeysThreshold ==
    Reported =>
        LET gs == Groups
        IN  /\ (Len(props) < cfg.minKeys => reports = <<>>)
            /\ \A x \in 1..Len(gs) : Len(gs[x]) < cfg.minKeys => ReportsIn(gs[x]) = {}
            /\ (Len(props) = cfg.minKeys /\ gs = <<props>> /\ Violations(props) # {})
                  => Len(reports) = 1

\* minKeys = 3 and a 3-entry unsorted structure: one report.
C3_Witness ==
    /\ Reported /\ pass = 0
    /\ cfg.minKeys = 3 /\ Len(props) = 3 /\ Groups = <<props>>
    /\ Violations(props) # {} /\ Len(reports) = 1

\* C4: one report per violating group, anchored at the first violation.  For
\* each group of at least minKeys entries: if some adjacent pair with both
\* names defined is rejected by the order predicate, exactly one report is
\* anchored in the group, at the later entry of the leftmost such pair;
\* otherwise none.  Pairs with an unsortable name never count.
C4_OneReportAtFirstViolation ==
    Reported =>
        LET gs == Groups
        IN  /\ \A x \in 1..Len(gs) :
                  Len(gs[x]) >= cfg.minKeys =>
                      LET g == gs[x]
                          bad == Violations(g)
                          rs == ReportsIn(g)
                      IN  IF bad = {}
                          THEN rs = {}
                          ELSE /\ Cardinality(rs) = 1
                               /\ \A k \in rs :
                                     \E i \in bad :
                                         /\ reports[k].node = g[i]
                                         /\ \A j \in bad : i <= j
            /\ \A k \in 1..Len(reports) :
                  \E x \in 1..Len(gs) : In(reports[k].node, gs[x])

\* A group that starts with an unsortable entry and whose only violation is
\* its last pair: the report is anchored at the third entry.
C4_Witness ==
    /\ Reported
    /\ \E x \in 1..Len(Groups) :
          LET g == Groups[x]
          IN  /\ Len(g) = 3
              /\ getPropertyName(g[1]).null
              /\ \E k \in 1..Len(reports) : reports[k].node = g[3]

\* C5 as stated: for every group the detector finds sorted (no adjacent pair
\* with both names defined is rejected), unsortable entries included, no
\* report is emitted and the planner's target order is the original order,
\* so that its plan is empty.
C5_SortedGroupKeepsOrder ==
    Reported =>
        LET gs == Groups
        IN  \A x \in 1..Len(gs) :
                LET g == gs[x]
                IN  Violations(g) = {} =>
                        /\ areSorted(Names(g), OrderKey)
                        /\ ReportsIn(g) = {}
                        /\ sorted(g) = g
                        /\ fix(g, sorted(g)) = <<>>

\* C5, amended: for every group the detector finds sorted, no report is
\* emitted; and when every unsortable entry of the group comes after its
\* named entries, the planner's target order is the original order and its
\* plan is empty.
C5_SortedGroupKeepsOrderWhenUnsortableLast ==
    Reported =>
        LET gs == Groups
        IN  \A x \in 1..Len(gs) :
                LET g == gs[x]
                IN  Violations(g) = {} =>
                        /\ areSorted(Names(g), OrderKey)
                        /\ ReportsIn(g) = {}
                        /\ UnsortableLast(g) =>
                              LET t == sorted(g) IN t = g /\ fix(g, t) = <<>>

\* A sorted group of two named entries with distinct names, then an unsortable one.
C5_Witness ==
    /\ Reported
    /\ \E x \in 1..Len(Groups) :
          LET g == Groups[x]
          IN  /\ Len(g) = 3 /\ Len(g) >= cfg.minKeys
              /\ ~getPropertyName(g[1]).null /\ ~getPropertyName(g[2]).null
              /\ getPropertyName(g[1]) # getPropertyName(g[2])
              /\ getPropertyName(g[3]).null
              /\ Violations(g) = {}
              /\ sorted(g) = g

\* C8: the permutation law.  For every reported group the planner's target
\* order holds each entry of the group exactly once; applying the plan puts
\* at the place of the group's i-th entry the text of the i-th target entry,
\* so that every original entry's text is found exactly once in the group's
\* places.
C8_FixIsPermutation ==
    Reported =>
        \A k \in 1..Len(reports) :
            LET g == GroupOf(reports[k])
                t == sorted(g)
                after == Fixed(props, reports)
            IN  /\ Len(t) = Len(g)
                /\ \A i \in 1..Len(g) : Cardinality({j \in 1..Len(t) : t[j] = g[i]}) = 1
                /\ \A i \in 1..Len(g) : getText(after[g[i].pos]) = getText(t[i])
                /\ \A i \in 1..Len(g) :
                      Cardinality({j \in 1..Len(g) : getText(after[g[j].pos]) = getText(g[i])}) = 1

\* A reported group of three entries of which two trade places and one stays.
C8_Witness ==
    /\ Reported
    /\ \E k \in 1..Len(reports) :
          /\ Len(GroupOf(reports[k])) = 3
          /\ Len(reports[k].fix) = 2

\* C9: the non-overlap law.  In every emitted plan each replacement's span is
\* the span of one entry of the reported group, no two replacements have the
\* same entry, none targets a separator or an entry outside the group, and no
\* two spans intersect.
C9_FixSpansDisjoint ==
    Reported =>
        \A k \in 1..Len(reports) :
            LET g == GroupOf(reports[k])
                f == reports[k].fix
            IN  /\ \A a \in 1..Len(f) : \E i \in 1..Len(g) : f[a].range = Range(g[i])
                /\ \A a \in 1..Len(f) : \A i \in 1..Len(props) :
                      Intersect(f[a].range, Range(props[i]))
                          => (In(props[i], g) /\ ~IsSeparator(props[i]))
                /\ \A a, b \in 1..Len(f) :
                      a # b => (f[a].range # f[b].range /\ ~Intersect(f[a].range, f[b].range))

\* A plan of two replacements in an object literal that also holds a spread.
C9_Witness ==
    /\ Reported
    /\ \E k \in 1..Len(reports) : Len(reports[k].fix) >= 2
    /\ \E i \in 1..Len(props) : IsSeparator(props[i])

\* C2: with ignoreComputedKeys on, only a dynamic computed key closes the
\* current group; a computed key that is a literal stays a member of a group,
\* and an object literal made of two literal computed keys out of order is
\* reported, whatever ignoreComputedKeys says.
C2_LiteralComputedKeysAreSorted ==
    Reported =>
        /\ \A i \in 1..Len(props) :
              IsLiteralComputed(props[i]) =>
                  \E x \in 1..Len(Groups) : In(props[i], Groups[x])
        /\ ( /\ Len(props) = 2 /\ cfg.minKeys = 2
             /\ IsLiteralComputed(props[1]) /\ IsLiteralComputed(props[2])
             /\ ~(cfg.allowLineSeparatedGroups /\ hasBlankLineBetween(props[1], props[2]))
             /\ ~isValidOrders(OrderKey, getPropertyName(props[1]).s,
                               getPropertyName(props[2]).s) )
              => Len(reports) = 1

\* The entries that close the current group: a separator, and with
\* ignoreComputedKeys a dynamic computed key.
IsClosing(p) == IsSeparator(p) \/ (cfg.ignoreComputedKeys /\ IsDynamicComputed(p))

\* C10: segmentation partitions the entries that do not close a group.  The
\* groups are non-empty, each a contiguous run of the input in its order,
\* pairwise disjoint and without separators; every entry that is not a
\* closing entry lies in exactly one group; and an entry that follows a
\* blank-line gap, with allowLineSeparatedGroups on and the entry before it
\* kept, starts a new group.
C10_SegmentationIsPartition ==
    Reported =>
        /\ \A x \in 1..Len(Groups) :
              LET g == Groups[x]
              IN  /\ Len(g) > 0
                  /\ \A i \in 1..Len(g) : g[i] = props[g[1].pos + i - 1]
                  /\ \A i \in 1..Len(g) : ~IsSeparator(g[i])
                  /\ \A y \in 1..Len(Groups) :
                        x # y => \A i \in 1..Len(g) : ~In(g[i], Groups[y])
                  /\ \A y \in 1..Len(Groups) : x < y => g[Len(g)].pos < Groups[y][1].pos
        /\ \A i \in 1..Len(props) :
              ~IsClosing(props[i]) =>
                  Cardinality({x \in 1..Len(Groups) : In(props[i], Groups[x])}) = 1
        /\ \A i \in 2..Len(props) :
              ( /\ cfg.allowLineSeparatedGroups
                /\ ~IsClosing(props[i - 1]) /\ ~IsClosing(props[i])
                /\ hasBlankLineBetween(props[i - 1], props[i]) )
                  => \E x \in 1..Len(Groups) : Groups[x][1] = props[i]

-----------------------------------------------------------------------------
\* Properties of the order predicates (checked under SpecCmp)

\* x and y agree up to a place where x has an uppercase letter and y the
\* same letter in lowercase.
UpperAtFirstDifference(x, y) ==
    \E i \in 1..Len(x) :
        /\ i <= Len(y)
        /\ SubSeq(x, 1, i - 1) = SubSeq(y, 1, i - 1)
        /\ IsUpper(x[i])
        /\ y[i] = x[i] + 32

\* C6: in the case-sensitive ascending modes, natural or not, of two keys
\* whose first difference is an uppercase letter against its lowercase
\* counterpart, the key with the uppercase letter is accepted before the
\* other, and the reverse order is rejected.
C6_UppercaseFirst ==
    (pc = "cmpdone" /\ out.op \in {"asc", "ascN"}) =>
        /\ UpperAtFirstDifference(sa, sb) => out.b
        /\ UpperAtFirstDifference(sb, sa) => ~out.b

\* The run of digits, or of non-digits, s starts with.
RECURSIVE FirstRunLen(_, _)
FirstRunLen(s, digits) ==
    IF s = <<>> \/ IsDigit(Head(s)) # digits THEN 0 ELSE 1 + FirstRunLen(Tail(s), digits)

\* Natural comparison as C7 words it: run by run from the left, two runs of
\* digits by their value, any other two runs by code point, the first runs
\* that differ deciding, a strict prefix first.
RECURSIVE CompareByRuns(_, _)
CompareByRuns(a, b) ==
    IF a = <<>> /\ b = <<>> THEN 0
    ELSE IF a = <<>> THEN -1
    ELSE IF b = <<>> THEN 1
    ELSE LET la == FirstRunLen(a, IsDigit(Head(a)))
             lb == FirstRunLen(b, IsDigit(Head(b)))
             ra == SubSeq(a, 1, la)
             rb == SubSeq(b, 1, lb)
             c  == IF IsDigit(Head(a)) /\ IsDigit(Head(b))
                   THEN (IF DigitsValue(ra) < DigitsValue(rb) THEN -1
                         ELSE IF DigitsValue(ra) > DigitsValue(rb) THEN 1 ELSE 0)
                   ELSE SeqCmp(ra, rb)
         IN  IF c # 0 THEN c
             ELSE CompareByRuns(SubSeq(a, la + 1, Len(a)), SubSeq(b, lb + 1, Len(b)))

\* C7: naturalCompare compares its operands run by run, runs of digits
\* numerically and runs of non-digits by code point, the first differing run
\* deciding the sign, a strict prefix sorting first.
C7_NaturalComparesRunsByCodePoint ==
    (pc = "cmpdone" /\ out.op = "naturalCompare") =>
        /\ (out.n < 0) = (CompareByRuns(sa, sb) < 0)
        /\ (out.n > 0) = (CompareByRuns(sa, sb) > 0)

====
